---- MODULE Spec2Model ----
(***************************************************************************)
(* Model of experiment/experiments.ipynb: the notebook's code cells run    *)
(* one after the other in a single kernel.  The state is the kernel's      *)
(* globals (the table df, matplotlib's rcParams, NumPy's global seed, the  *)
(* bound names), the file stored under file_name, and a log of the effects *)
(* of read_file in the order the code performs them.                       *)
(*                                                                         *)
(* pandas is modelled by what the two calls the notebook makes do:         *)
(*   pd.read_csv(path, compression='zip', sep="\t")                        *)
(*   DataFrame.drop(labels, axis=1, inplace=True)   (drop by LABEL)        *)
(***************************************************************************)
EXTENDS Integers, Sequences, FiniteSets, TLC

\* ---------------------------------------------------------------- bounds
MaxCols == 5      \* most header fields of an input file
MaxRows == 2      \* most data lines of an input file
MaxReruns == 1    \* most repeated runs of the 'Drop corrupted data' cell

\* ------------------------------------------------------ program constants
ImportCell == 1   \* "# Import libraries"
SetupCell  == 2   \* plotting parameters and random seed
ReadCell   == 3   \* def read_file ... df = read_file(file_name)
DropCell   == 4   \* drop_signal = [...]; df.drop(...)
FirstStub  == 5   \* "# TODO" / commented-out cells
LastCell   == 15

date_start == "04012021"
date_end   == "04302021"
file_name  == <<"dataset_aquaponics_", date_start, "_", date_end, ".txt.zip">>

drop_signal ==
  <<3, 12, 13, 14, 15, 22, 23, 24, 25, 30, 31, 32, 33, 34, 35, 36, 37, 38,
    39, 40, 42, 43, 44, 45, 46, 47, 48, 49, 56, 63, 64, 65, 66, 67, 68, 69,
    70, 71, 72, 73, 74, 75, 76, 77, 78, 79, 80, 81, 82, 83, 84, 85, 86, 93,
    94, 95, 97, 98, 99, 100, 101, 104, 105, 106, 111, 112, 113, 114>>

\* ------------------------------------------------------------------ labels
\* A column label.  kind "str": the text `text` followed by ".k" for every k
\* of sfx ("3.1" is [text "3", sfx <<1>>]).  kind "int": the Python int sfx[1].
\* A str label never equals an int label ('3' != 3 in Python).
StrLabel(text, sfx) == [kind |-> "str", text |-> text, sfx |-> sfx]
IntLabel(n)         == [kind |-> "int", text |-> "",   sfx |-> <<n>>]

\* header fields an input file may carry: the texts "3" and "3.1"
RawNames == { StrLabel("3", <<>>), StrLabel("3", <<1>>) }
\* the one field of a header line that holds no tab
LineName == StrLabel("3,3", <<>>)

Range(s) == { s[i] : i \in DOMAIN s }

SeqsUpTo(S, n) == UNION { [1..k -> S] : k \in 0..n }

\* ------------------------------------------------------------------- files
\* kind:  absent | notzip | zip0 (archive without member) | zipmany (archive
\*        with several members) | zip (archive with one member)
\* delim: the delimiter the member was written with
\* header, widths: the member's header fields and, per data line, the number
\*        of fields, both counted in the member's own delimiter
NoContent(k) == [kind |-> k, delim |-> "tab", header |-> <<>>, widths |-> <<>>]

\* field counts of a data line under a header of h fields: one field short
\* (its last cell is NaN), as many as the header, one more than the header
Widths(h) == { Len(h) - 1, Len(h), Len(h) + 1 } \ {0}

Files ==
  { NoContent(k) : k \in {"absent", "notzip", "zip0", "zipmany", "zip"} }
  \cup
  UNION { { [kind |-> "zip", delim |-> d, header |-> h, widths |-> w] :
              d \in {"tab", "comma"},
              w \in SeqsUpTo(Widths(h), MaxRows) } :
          h \in SeqsUpTo(RawNames, MaxCols) \ {<<>>} }

\* the fields sep="\t" finds in the header line and in each data line: a
\* line written with another delimiter holds no tab and is one field
HeaderFields(f) ==
  IF f.delim = "tab" THEN f.header
  ELSE IF f.header = <<>> THEN <<>> ELSE <<LineName>>

LineFields(f) ==
  IF f.delim = "tab" THEN f.widths ELSE [i \in DOMAIN f.widths |-> 1]

\* ------------------------------------------------------ read_csv: header
Get(c, n)    == IF n \in DOMAIN c THEN c[n] ELSE 0
Put(c, n, v) == [x \in (DOMAIN c) \cup {n} |-> IF x = n THEN v ELSE c[x]]

\* the parser's loop that renames a repeated header field
RECURSIVE Dedup(_, _)
Dedup(name, counts) ==
  LET count == Get(counts, name) IN
  IF count > 0
    THEN Dedup([name EXCEPT !.sfx = Append(@, count)],
               Put(counts, name, count + 1))
    ELSE [name |-> name, counts |-> counts]

RECURSIVE MangleFrom(_, _, _)
MangleFrom(names, counts, out) ==
  IF names = <<>> THEN out
  ELSE LET d == Dedup(Head(names), counts) IN
       MangleFrom(Tail(names), Put(d.counts, d.name, 1), Append(out, d.name))

\* variant: header fields are taken as they stand, repeated ones included
MangleNone(names) == names

MangleDupeCols(names) == MangleFrom(names, <<>>, <<>>)

\* ------------------------------------------------------- read_csv: rows
Max(a, b) == IF a > b THEN a ELSE b

\* a data line after the first one with more fields than the lines before
\* it ("Expected k fields in line n, saw m")
TooManyFields(h, w) ==
  \E i \in DOMAIN w : i > 1 /\ w[i] > Max(h, w[1])

\* fields of the first data line beyond the header become the row index
LeadingCols(h, w) == IF w = <<>> THEN 0 ELSE Max(0, w[1] - h)

\* cell of data line r, field f; <<r, 0>> is NaN (line r has no field f)
Cell(w, r, f) == IF f <= w[r] THEN <<r, f>> ELSE <<r, 0>>

Column(label, j, lead, w) ==
  [label |-> label, src |-> j,
   vals  |-> [r \in DOMAIN w |-> Cell(w, r, j + lead)]]

ParseTable(hf, w) ==
  LET labels == MangleDupeCols(hf)
      lead   == LeadingCols(Len(hf), w)
  IN [cols  |-> [j \in DOMAIN labels |-> Column(labels[j], j, lead, w)],
      nrows |-> Len(w)]

Raise(e) == [ok |-> FALSE, err |-> e, table |-> [cols |-> <<>>, nrows |-> 0]]
Return(t) == [ok |-> TRUE, err |-> "none", table |-> t]

\* pd.read_csv(textfile, compression='zip', sep="\t")
ReadCsv(f) ==
  IF f.kind = "absent" THEN Raise("FileNotFoundError")
  ELSE IF f.kind = "notzip" THEN Raise("BadZipFile")
  ELSE IF f.kind \in {"zip0", "zipmany"} THEN Raise("ValueError")
  ELSE IF HeaderFields(f) = <<>> THEN Raise("EmptyDataError")
  ELSE IF TooManyFields(Len(HeaderFields(f)), LineFields(f))
         THEN Raise("ParserError")
  ELSE Return(ParseTable(HeaderFields(f), LineFields(f)))

\* ---------------------------------------------------------- DataFrame.drop
Labels(t) == { t.cols[i].label : i \in DOMAIN t.cols }

\* variant: the filter keeps the named columns instead of removing them
KeepColInverted(c, labels) == c.label \in labels

KeepCol(c, labels) == c.label \notin labels

Without(t, labels) ==
  [t EXCEPT !.cols = SelectSeq(@, LAMBDA c : KeepCol(c, labels))]

\* variant: errors='ignore', a label that names no column is skipped
DropIgnoreMissing(t, labels) == Return(Without(t, labels))

ColsNotAt(cols, pos) ==
  LET idx == SelectSeq([i \in DOMAIN cols |-> i], LAMBDA i : i \notin pos)
  IN [k \in DOMAIN idx |-> cols[idx[k]]]

\* variant: integer entries are taken as 0-based positions, the columns at
\* the positions that exist are removed, and the call then raises for the rest
DropPositionsThenRaise(t, labels) ==
  LET pos == { l.sfx[1] + 1 : l \in { x \in labels : x.kind = "int" } } IN
  IF \E l \in labels : l \notin Labels(t)
    THEN [ok |-> FALSE, err |-> "KeyError",
          table |-> [t EXCEPT !.cols = ColsNotAt(@, pos)]]
    ELSE Return(Without(t, labels))

\* DataFrame.drop(labels, axis=1, inplace=True): KeyError when a label names
\* no column, and then nothing is removed; else every column with such a
\* label goes.  table is the frame as the call leaves it.
Drop(t, labels) ==
  IF \E l \in labels : l \notin Labels(t)
    THEN [ok |-> FALSE, err |-> "KeyError", table |-> t]
    ELSE Return(Without(t, labels))

\* ------------------------------------------------------------- read_file
\* variant: a failed parse is caught and an empty table is returned
read_file_swallow(f) ==
  LET parsed  == ReadCsv(f)
      dropped == Drop(parsed.table, {parsed.table.cols[1].label})
  IN IF ~parsed.ok
       THEN [ok |-> TRUE, err |-> "none", table |-> parsed.table,
             effects |-> <<"read_csv", "print:Dataset ready", "return">>]
       ELSE [ok |-> TRUE, err |-> "none", table |-> dropped.table,
             effects |-> <<"read_csv", "drop_index", "print:Dataset ready",
                           "return">>]

\* variant: a failed parse is tried a second time before the failure is raised
read_file_retry(f) ==
  LET parsed  == ReadCsv(f)
      dropped == Drop(parsed.table, {parsed.table.cols[1].label})
  IN IF ~parsed.ok
       THEN [ok |-> FALSE, err |-> parsed.err, table |-> parsed.table,
             effects |-> <<"read_csv", "read_csv", "raise">>]
       ELSE [ok |-> TRUE, err |-> "none", table |-> dropped.table,
             effects |-> <<"read_csv", "drop_index", "print:Dataset ready",
                           "return">>]

\* variant: the message is printed before the index column is dropped
read_file_print_first(f) ==
  LET parsed  == ReadCsv(f)
      dropped == Drop(parsed.table, {parsed.table.cols[1].label})
  IN IF ~parsed.ok
       THEN [ok |-> FALSE, err |-> parsed.err, table |-> parsed.table,
             effects |-> <<"read_csv", "raise">>]
       ELSE [ok |-> TRUE, err |-> "none", table |-> dropped.table,
             effects |-> <<"read_csv", "print:Dataset ready", "drop_index",
                           "return">>]

\* def read_file(textfile): the table it returns and its effects, in the
\* order the code performs them
\*   df = pd.read_csv(textfile, compression='zip', sep="\t")
\*   df.drop(df.columns[0], axis=1, inplace=True)
\*   print('Dataset ready')
\*   return df
read_file(f) ==
  LET parsed  == ReadCsv(f)
      dropped == Drop(parsed.table, {parsed.table.cols[1].label})
  IN IF ~parsed.ok
       THEN [ok |-> FALSE, err |-> parsed.err, table |-> parsed.table,
             effects |-> <<"read_csv", "raise">>]
       ELSE [ok |-> TRUE, err |-> "none", table |-> dropped.table,
             effects |-> <<"read_csv", "drop_index", "print:Dataset ready",
                           "return">>]

\* ------------------------------------------------------------------- state
VARIABLES
  fs,        \* the file stored under file_name
  cell,      \* the next code cell to run
  err,       \* the exception that ended the last cell run, or "none"
  names,     \* the global names bound so far
  rcParams,  \* matplotlib's process-wide plotting configuration
  seed,      \* NumPy's global random state: OsEntropy or the seed set
  df,        \* the global df: <<>> while unbound, else <<table>>
  log,       \* effects of the read_file calls, oldest first
  execution_count  \* the kernel's count of cell runs

vars == <<fs, cell, err, names, rcParams, seed, df, log, execution_count>>

\* the global generator before any np.random.seed call
OsEntropy == -1

\* matplotlib's defaults; figsize in tenths of an inch
DefaultRc == [figsize |-> <<64, 48>>, grid |-> FALSE, fontsize |-> 10]
NotebookRc == [figsize |-> <<140, 80>>, grid |-> TRUE, fontsize |-> 18]

Init ==
  /\ fs \in Files
  /\ cell = ImportCell
  /\ err = "none"
  /\ names = {}
  /\ rcParams = DefaultRc
  /\ seed = OsEntropy
  /\ df = <<>>
  /\ log = <<>>
  /\ execution_count = 0

\* variant: the import cell also applies the plotting parameters and the seed
RunImportsAndSetup ==
  /\ cell = ImportCell
  /\ names' = names \cup {"os", "sys", "torch", "nn", "F", "optim", "pl",
                          "Dataset", "DataLoader", "SummaryWriter", "mp",
                          "pd", "np", "mpl", "plt"}
  /\ rcParams' = NotebookRc
  /\ seed' = 10
  /\ err' = "none"
  /\ cell' = cell + 1
  /\ execution_count' = execution_count + 1
  /\ UNCHANGED <<fs, df, log>>

\* "# Import libraries"
RunImports ==
  /\ cell = ImportCell
  /\ names' = names \cup {"os", "sys", "torch", "nn", "F", "optim", "pl",
                          "Dataset", "DataLoader", "SummaryWriter", "mp",
                          "pd", "np", "mpl", "plt"}
  /\ err' = "none"
  /\ cell' = cell + 1
  /\ execution_count' = execution_count + 1
  /\ UNCHANGED <<fs, rcParams, seed, df, log>>

\* plotting parameters and np.random.seed(10)
RunSetup ==
  /\ cell = SetupCell
  /\ rcParams' = NotebookRc
  /\ seed' = 10
  /\ names' = names \cup {"font"}
  /\ err' = "none"
  /\ cell' = cell + 1
  /\ execution_count' = execution_count + 1
  /\ UNCHANGED <<fs, df, log>>

\* def read_file ...; df = read_file(file_name)
RunReadCell ==
  /\ cell = ReadCell
  /\ LET r == read_file(fs) IN
       /\ log' = log \o r.effects
       /\ err' = r.err
       /\ df' = IF r.ok THEN <<r.table>> ELSE df
       /\ names' = names \cup {"read_file", "date_start", "date_end",
                               "file_name"}
                         \cup (IF r.ok THEN {"df"} ELSE {})
  /\ cell' = cell + 1
  /\ execution_count' = execution_count + 1
  /\ UNCHANGED <<fs, rcParams, seed>>

DropLabels == { IntLabel(drop_signal[i]) : i \in DOMAIN drop_signal }

\* drop_signal = [...]; df.drop(columns = drop_signal, axis = 1, inplace = True)
DropStep ==
  /\ names' = names \cup {"drop_signal"}
  /\ IF df = <<>>
       THEN /\ err' = "NameError"
            /\ df' = df
       ELSE LET r == Drop(df[1], DropLabels) IN
            /\ err' = r.err
            /\ df' = <<r.table>>
  /\ UNCHANGED <<fs, rcParams, seed, log>>

RunDropCell ==
  /\ cell = DropCell
  /\ DropStep
  /\ cell' = cell + 1
  /\ execution_count' = execution_count + 1

\* the cells that hold only "# TODO" or commented-out code
RunStubCell ==
  /\ cell \in FirstStub..LastCell
  /\ err' = "none"
  /\ cell' = cell + 1
  /\ execution_count' = execution_count + 1
  /\ UNCHANGED <<fs, names, rcParams, seed, df, log>>

\* the user runs the 'Drop corrupted data' cell again right after it ran
ReRunDropCell ==
  /\ cell = DropCell + 1
  /\ execution_count < DropCell + MaxReruns
  /\ DropStep
  /\ cell' = cell
  /\ execution_count' = execution_count + 1

Next ==
  \/ RunImports
  \/ RunSetup
  \/ RunReadCell
  \/ RunDropCell
  \/ RunStubCell

Spec == Init /\ [][Next]_vars

NextRerun ==
  \/ Next
  \/ ReRunDropCell

SpecRerun == Init /\ [][NextRerun]_vars

\* ================================================================ claims
Parsed == ReadCsv(fs)

Count(e, s) == Cardinality({ i \in DOMAIN s : s[i] = e })

AfterRead == cell = ReadCell + 1

\* ---------------------------------------------------------------------
\* C1: for every input that parses into a table of N >= 1 columns and R
\* rows, read_file returns a table of exactly N-1 columns and R rows that
\* does not hold the first parsed column (N = 1: no column, still R rows).
C1_ReadFileShape ==
  (AfterRead /\ Parsed.ok) =>
    /\ df # <<>>
    /\ Len(df[1].cols) = Len(Parsed.table.cols) - 1
    /\ df[1].nrows = Parsed.table.nrows
    /\ Parsed.table.cols[1] \notin Range(df[1].cols)

\* a file whose header repeats its first field was loaded
C1_Witness ==
  /\ AfterRead /\ df # <<>>
  /\ fs.delim = "tab" /\ Len(fs.header) >= 3 /\ fs.header[1] = fs.header[2]
  /\ Len(df[1].cols) = Len(fs.header) - 1
  /\ df[1].nrows >= 1

\* ---------------------------------------------------------------------
\* C2 as claimed: when the file is absent, malformed or not in the zip/tab
\* combination, the read cell fails: no table, one parse attempt, df not
\* assigned, no completion message.
Malformed(f) ==
  f.header = <<>> \/ TooManyFields(Len(f.header), f.widths)

ReadFailed ==
  /\ err # "none"
  /\ df = <<>> /\ "df" \notin names
  /\ log = <<"read_csv", "raise">>

C2_AsClaimed ==
  (AfterRead /\ (fs.kind # "zip" \/ fs.delim # "tab" \/ Malformed(fs)))
    => ReadFailed

\* C2 as amended: when the file is absent, is not a zip archive with exactly
\* one member, or its member is empty or has a data line after the first
\* with more tab-separated fields than the lines before it, the read cell
\* fails: no table, one parse attempt, df not assigned, no completion
\* message.  (A member written with another delimiter is not rejected.)
Unreadable(f) ==
  \/ f.kind # "zip"
  \/ f.header = <<>>
  \/ f.delim = "tab" /\ TooManyFields(Len(f.header), f.widths)

C2_ReadFailure == (AfterRead /\ Unreadable(fs)) => ReadFailed

\* a file with an overlong data line was refused
C2_Witness ==
  /\ AfterRead /\ err = "ParserError" /\ df = <<>>
  /\ Count("read_csv", log) = 1 /\ Count("print:Dataset ready", log) = 0

\* ---------------------------------------------------------------------
\* C3 as claimed: once the 'Drop corrupted data' cell has run on the table
\* read_file produced, no column that stood at a position listed in
\* drop_signal is left in the table, whatever cell runs next.
Loaded == read_file(fs).table

C3_AsClaimed ==
  (cell > DropCell /\ df # <<>>) =>
    \A i \in DOMAIN drop_signal :
      (drop_signal[i] + 1) \in DOMAIN Loaded.cols =>
        Loaded.cols[drop_signal[i] + 1] \notin Range(df[1].cols)

\* ---------------------------------------------------------------------
\* C4: in a run of the cells in order the table is loaded once, by one
\* read_file call; after that the table only loses columns, in place; and
\* the file is never written.
IsColumnDrop(t, u) ==
  /\ u.nrows = t.nrows
  /\ u.cols = SelectSeq(t.cols, LAMBDA c : c \in Range(u.cols))

C4_LoadOnceDropOnly ==
  /\ [](/\ Count("read_csv", log) <= 1
        /\ (cell > ReadCell => Count("read_csv", log) = 1)
        /\ (df # <<>> => Count("drop_index", log) = 1))
  /\ [][df # <<>> => (df' # <<>> /\ IsColumnDrop(df[1], df'[1]))]_vars
  /\ [][fs' = fs]_vars

\* the whole notebook ran with a table loaded
C4_Witness ==
  /\ cell = LastCell + 1 /\ df # <<>>
  /\ Count("read_csv", log) = 1
  /\ Len(df[1].cols) >= 1

\* ---------------------------------------------------------------------
\* C5: a successful read_file call prints 'Dataset ready' exactly once,
\* after the parse and the drop of the index column and before it returns.
C5_PrintOnceInOrder ==
  (cell > ReadCell /\ df # <<>>) =>
    /\ Count("print:Dataset ready", log) = 1
    /\ \E i, j, k, l \in DOMAIN log :
         /\ i < j /\ j < k /\ k < l
         /\ log[i] = "read_csv"
         /\ log[j] = "drop_index"
         /\ log[k] = "print:Dataset ready"
         /\ log[l] = "return"

\* a call that succeeded and printed
C5_Witness ==
  /\ AfterRead /\ err = "none" /\ df # <<>>
  /\ "print:Dataset ready" \in Range(log)

\* ---------------------------------------------------------------------
\* C6: when an entry of drop_signal names no column of the loaded table,
\* the 'Drop corrupted data' cell ends in a KeyError and the notebook moves
\* on to the next cell: nothing catches it and nothing runs the drop again.
MissingEntry(t) == \E l \in DropLabels : l \notin Labels(t)

C6_DropFails ==
  [][(cell = DropCell /\ df # <<>> /\ MissingEntry(df[1]))
       => (err' = "KeyError" /\ cell' = DropCell + 1
           /\ execution_count' = execution_count + 1)]_vars

\* the drop cell ran on a loaded table and failed
C6_Witness ==
  /\ cell = DropCell + 1 /\ df # <<>> /\ err = "KeyError"
  /\ "drop_signal" \in names

\* ---------------------------------------------------------------------
\* C7 as claimed: no cell changes shared state other than the table.
C7_AsClaimed == [][UNCHANGED <<fs, rcParams, seed>>]_vars

\* C7 as amended: the setup cell sets matplotlib's rcParams and NumPy's
\* global seed; no other cell changes them, and no cell changes the file,
\* so from the read cell on the table is the only shared state modified.
C7_OnlySetupConfigures ==
  [][/\ fs' = fs
     /\ cell # SetupCell => UNCHANGED <<rcParams, seed>>
     /\ cell = SetupCell => (rcParams' = NotebookRc /\ seed' = 10)]_vars

\* the setup cell has configured the process and a table is loaded
C7_Witness ==
  /\ cell > DropCell /\ df # <<>>
  /\ rcParams = NotebookRc /\ rcParams # DefaultRc
  /\ seed = 10

\* ---------------------------------------------------------------------
\* C8: read_file returns exactly the parsed columns 2..N, in their order,
\* with their labels and cell values, and the rows in their order.
C8_ReadFileFrame ==
  (AfterRead /\ Parsed.ok) =>
    df = << [cols  |-> Tail(Parsed.table.cols),
             nrows |-> Parsed.table.nrows] >>

\* a table of several columns and two rows of different lengths was loaded
C8_Witness ==
  /\ AfterRead /\ df # <<>>
  /\ Len(df[1].cols) >= 2 /\ df[1].nrows = 2
  /\ fs.delim = "tab" /\ fs.widths[1] # fs.widths[2]

====
